---- MODULE Spec2Model ----
(***************************************************************************)
(* Dual-EMA crossover analysis: the data fetcher, the indicator engine,    *)
(* the crossover detector and the recommendation requester, modelled as a  *)
(* state machine over pandas frames.                                       *)
(*                                                                         *)
(* A frame is a sequence of rows.  Every row carries its pandas row LABEL  *)
(* (the index value) beside its data: the source mixes label based access  *)
(* (.loc, .at, .index) with position based access (.iloc, range(len)), so  *)
(* the two are kept apart.  Positions are 0-based as in the source.        *)
(* Prices and indicator values are exact rationals <<num, den>>.           *)
(***************************************************************************)
EXTENDS Integers, Sequences, FiniteSets, TLC

(* ----------------------------- bounds --------------------------------- *)

\* a short series has 0..MaxShort bars, each with a freely chosen close
MaxShort == 3
\* a long series has LevelStart+1 .. LevelStart+1+MaxOver bars
MaxOver == 1
\* number of final bars of a long series whose close is freely chosen
MaxTail == 2
\* the analysis start date is drawn from 1..MaxStart
MaxStart == 2
\* closes are Base-1, Base or Base+1; high and low lie HalfRange around close
Base == 10
HalfRange == 1
\* a frame handed straight to the analyzer has 0..MaxRows rows
MaxRows == 4
\* the 10-bar scenario of the level threshold
ScenarioBars == 10
\* a back-test frame has 1..StrategyBars bars
StrategyBars == 3

(* ------------------------ program constants --------------------------- *)

\* technical_indicators.py:84   if i >= 34
LevelStart == 34
\* technical_indicators.py:220  lookback: int = 34
Lookback == 34
\* technical_indicators.py:243  talib.ATR(high, low, close, 14)
AtrPeriod == 14
\* ema_analyzer.py:59   get_loc(current_idx) - 5
PrevDays == 5
\* ema_analyzer.py:151  get_loc(current_sorted_idx) - 4
PastDays == 4

(* --------------------------- rationals -------------------------------- *)

RECURSIVE Gcd(_, _)
Gcd(a, b) == IF b = 0 THEN a ELSE Gcd(b, a % b)

Abs(x) == IF x < 0 THEN -x ELSE x

Lcm(a, b) == (a \div Gcd(a, b)) * b

\* the rational n/d (d > 0) in lowest terms
Rat(n, d) ==
    LET g == Gcd(Abs(n), d) IN
    IF n = 0 THEN <<0, 1>> ELSE <<n \div g, d \div g>>

RInt(n) == <<n, 1>>

RAdd(a, b) ==
    LET d == Lcm(a[2], b[2]) IN
    Rat(a[1] * (d \div a[2]) + b[1] * (d \div b[2]), d)

RNeg(a) == <<-a[1], a[2]>>

RSub(a, b) == RAdd(a, RNeg(b))

\* a * k / m for integers k, m with m > 0
RScale(a, k, m) ==
    LET g  == Gcd(Abs(k), a[2])
        h  == Gcd(Abs(a[1]), m)
        hh == IF h = 0 THEN 1 ELSE h
    IN  Rat((a[1] \div hh) * (k \div g), (a[2] \div g) * (m \div hh))

RSign(a) == IF a[1] > 0 THEN 1 ELSE IF a[1] < 0 THEN -1 ELSE 0

RLess(a, b) == RSign(RSub(a, b)) < 0

RMax(a, b) == IF RLess(a, b) THEN b ELSE a

RMin(a, b) == IF RLess(a, b) THEN a ELSE b

RAbs(a) == <<Abs(a[1]), a[2]>>

\* the sum of s[k..] added to acc, left to right
RECURSIVE RSumFrom(_, _, _)
RSumFrom(s, k, acc) ==
    IF k > Len(s) \/ acc[2] < 1 THEN acc
    ELSE RSumFrom(s, k + 1, RAdd(acc, s[k]))

RSum(s) == RSumFrom(s, 1, RInt(0))

\* numpy.mean of a non-empty list
Mean(s) == RScale(RSum(s), 1, Len(s))

(* ------------------------- frame helpers ------------------------------ *)

\* df.iloc[p] for a 0-based position p
ILoc(df, p) == df[p + 1]

Max(a, b) == IF a < b THEN b ELSE a

Min(a, b) == IF a < b THEN a ELSE b

\* a slice bound as pandas reads it: a negative bound counts from the end
SliceBound(df, a) == IF a < 0 THEN Max(Len(df) + a, 0) ELSE Min(a, Len(df))

\* df.iloc[a:b]: the rows at positions a .. b-1
ISlice(df, a, b) ==
    LET lo == SliceBound(df, a)
        hi == SliceBound(df, b)
    IN  IF hi <= lo THEN <<>> ELSE SubSeq(df, lo + 1, hi)

Labels(df) == {df[k].label : k \in 1..Len(df)}

\* df.index.get_loc(label): the 0-based position of the row with the label
GetLoc(df, lab) == (CHOOSE k \in 1..Len(df) : df[k].label = lab) - 1

\* df.loc[label]: the row with the label
Loc(df, lab) == ILoc(df, GetLoc(df, lab))

\* a frame sorted by date with the row r put in, behind the rows dated r.date
\* or earlier
InsertByDate(sorted, r) ==
    IF sorted = <<>> THEN <<r>>
    ELSE IF sorted[Len(sorted)].date <= r.date THEN Append(sorted, r)
    ELSE LET before == Cardinality({j \in 1..Len(sorted) : sorted[j].date <= r.date})
         IN  SubSeq(sorted, 1, before) \o <<r>> \o SubSeq(sorted, before + 1, Len(sorted))

\* the rows of df from 1-based index k on, put one by one into sorted
RECURSIVE SortFrom(_, _, _)
SortFrom(df, k, sorted) ==
    IF k > Len(df) \/ Len(sorted) # k - 1 THEN sorted
    ELSE SortFrom(df, k + 1, InsertByDate(sorted, df[k]))

\* df.sort_values('date'): rows in ascending date order, labels kept, rows of
\* equal date in frame order
SortValues(df) == SortFrom(df, 1, <<>>)

(* ------------------------ indicator engine ---------------------------- *)

\* the absent value of an object column (None)
NoLevels == <<>>

\* the recurrence with the two weights exchanged: y = alpha*y_prev + (1-alpha)*x
EwmStepExchanged(prev, x, span) ==
    RScale(RAdd(RScale(prev, 2, 1), RScale(x, span - 1, 1)), 1, span + 1)

\* one step of the recurrence y = ((span-1)*y_prev + 2*x) / (span+1), which
\* is y = (1-alpha)*y_prev + alpha*x for alpha = 2/(span+1)
EwmStep(prev, x, span) ==
    RScale(RAdd(RScale(prev, span - 1, 1), RScale(x, 2, 1)), 1, span + 1)

\* the means of xs from 1-based index k on, ys being the means before k
RECURSIVE EwmFrom(_, _, _, _)
EwmFrom(xs, k, ys, span) ==
    IF k > Len(xs) \/ Len(ys) # k - 1 THEN ys
    ELSE EwmFrom(xs, k + 1, Append(ys, EwmStep(ys[k - 1], xs[k], span)), span)

\* Series.ewm(span=period, adjust=False).mean(): the first mean is the
\* first value
EwmMean(xs, span) ==
    IF xs = <<>> THEN <<>> ELSE EwmFrom(xs, 2, <<xs[1]>>, span)

\* the 'close' column as floats
CloseColumn(df) == [k \in 1..Len(df) |-> RInt(df[k].close)]

calculate_ema(df, period) == EwmMean(CloseColumn(df), period)

\* true range of the bar at 1-based index k >= 2 of a window
TrueRange(w, k) ==
    LET h == RInt(w[k].high)
        l == RInt(w[k].low)
        c == RInt(w[k - 1].close)
    IN  RMax(RSub(h, l), RMax(RAbs(RSub(h, c)), RAbs(RSub(l, c))))

\* Wilder's smoothing from 1-based index k on, atr being the value at k-1
RECURSIVE AtrFrom(_, _, _)
AtrFrom(w, k, atr) ==
    IF k > Len(w) \/ atr[2] = 0 THEN atr
    ELSE AtrFrom(w, k + 1,
                 RScale(RAdd(RScale(atr, AtrPeriod - 1, 1), TrueRange(w, k)),
                        1, AtrPeriod))

\* talib.ATR(high, low, close, 14)[-1] of a window longer than 14 bars: the
\* mean of the first 14 true ranges, then Wilder's smoothing to the last bar
AtrLast(w) ==
    AtrFrom(w, AtrPeriod + 2, Mean([j \in 1..AtrPeriod |-> TrueRange(w, j + 1)]))

\* df['high'].values.max()
MaxHigh(w) ==
    LET H == {w[k].high : k \in 1..Len(w)} IN CHOOSE h \in H : \A x \in H : x <= h

\* df['low'].values.min()
MinLow(w) ==
    LET L == {w[k].low : k \in 1..Len(w)} IN CHOOSE l \in L : \A x \in L : l <= x

\* find_key_levels with R1 and S1 taken from the wrong extremes
\* (r1 = 2 * pp - high.max(), s1 = 2 * pp - low.min())
find_key_levels_exchanged(w) ==
    IF Len(w) < Lookback THEN <<NoLevels, NoLevels>>
    ELSE LET atr  == AtrLast(w)
             half == RScale(atr, 1, 2)
             hi   == RInt(MaxHigh(w))
             lo   == RInt(MinLow(w))
             pp   == RScale(RAdd(RAdd(hi, lo), RInt(w[Len(w)].close)), 1, 3)
             r1   == RSub(RScale(pp, 2, 1), hi)
             s1   == RSub(RScale(pp, 2, 1), lo)
         IN  << <<RSub(s1, half), RSub(pp, atr)>>,
                <<RAdd(r1, half), RAdd(pp, atr)>> >>

\* find_key_levels(window): <<support_levels, resistance_levels>>
find_key_levels(w) ==
    IF Len(w) < Lookback THEN <<NoLevels, NoLevels>>
    ELSE LET atr  == AtrLast(w)
             half == RScale(atr, 1, 2)
             hi   == RInt(MaxHigh(w))
             lo   == RInt(MinLow(w))
             pp   == RScale(RAdd(RAdd(hi, lo), RInt(w[Len(w)].close)), 1, 3)
             r1   == RSub(RScale(pp, 2, 1), lo)
             s1   == RSub(RScale(pp, 2, 1), hi)
         IN  << <<RSub(s1, half), RSub(pp, atr)>>,
                <<RAdd(r1, half), RAdd(pp, atr)>> >>

\* AtSetLevels writing one label too far (df.at[i + 1, ...])
AtSetLevelsNext(df, lab, sup, res) ==
    IF lab + 1 \in Labels(df)
    THEN [k \in 1..Len(df) |->
            IF df[k].label = lab + 1
            THEN [df[k] EXCEPT !.support_levels = sup, !.resistance_levels = res]
            ELSE df[k]]
    ELSE Append(df, [label |-> lab + 1, date |-> 0, high |-> 0, low |-> 0, close |-> 0,
                     EMA_short |-> RInt(0), EMA_long |-> RInt(0),
                     support_levels |-> sup, resistance_levels |-> res])

\* df.at[lab, levels] = value: the write goes to the row carrying the LABEL
\* lab; a label that no row carries makes pandas append a new row for it
AtSetLevels(df, lab, sup, res) ==
    IF lab \in Labels(df)
    THEN [k \in 1..Len(df) |->
            IF df[k].label = lab
            THEN [df[k] EXCEPT !.support_levels = sup, !.resistance_levels = res]
            ELSE df[k]]
    ELSE Append(df, [label |-> lab, date |-> 0, high |-> 0, low |-> 0, close |-> 0,
                     EMA_short |-> RInt(0), EMA_long |-> RInt(0),
                     support_levels |-> sup, resistance_levels |-> res])

\* the loop of calculate_all, for i in range(n) with i >= 34: the turns
\* i = from .. n-1 (n is fixed when the loop starts)
RECURSIVE LevelLoop(_, _, _)
LevelLoop(df, i, n) ==
    IF i >= n \/ Len(df) = 0 THEN df
    ELSE LET lv == find_key_levels(ISlice(df, i - LevelStart, i + 1))
         IN  LevelLoop(AtSetLevels(df, i, lv[1], lv[2]), i + 1, n)

\* TechnicalIndicators(df).calculate_all(short, long): the frame returned
calculate_all(df, short, long) ==
    LET es == calculate_ema(df, short)
        el == calculate_ema(df, long)
        withEma == [k \in 1..Len(df) |->
                      [label |-> df[k].label, date |-> df[k].date,
                       high |-> df[k].high, low |-> df[k].low, close |-> df[k].close,
                       EMA_short |-> es[k], EMA_long |-> el[k],
                       support_levels |-> NoLevels, resistance_levels |-> NoLevels]]
    IN  LevelLoop(withEma, LevelStart, Len(df))

(* -------------------------- data fetcher ------------------------------ *)

AssetTypes == {"stock", "future", "fund"}

\* what the price-series provider does when it is contacted
ProviderOutcomes == {"frame", "none", "empty", "raise"}

NoFile == [exists |-> FALSE, rows |-> <<>>]

\* df.to_csv(filepath, index=False): the rows in frame order, labels dropped
to_csv(df) ==
    [exists |-> TRUE,
     rows   |-> [k \in 1..Len(df) |->
                   [date |-> df[k].date, high |-> df[k].high,
                    low |-> df[k].low, close |-> df[k].close]]]

\* pd.read_csv(filepath): the saved rows under a fresh RangeIndex 0..n-1
read_csv(file) ==
    [k \in 1..Len(file.rows) |->
       [label |-> k - 1, date |-> file.rows[k].date, high |-> file.rows[k].high,
        low |-> file.rows[k].low, close |-> file.rows[k].close]]

\* get_minute_data without the test for an empty answer (len(df) == 0)
get_minute_data_keeps_empty(assetType, file, outcome, provided) ==
    IF file.exists
    THEN [none |-> FALSE, rows |-> read_csv(file), file |-> file, contacted |-> FALSE]
    ELSE IF assetType \notin AssetTypes
    THEN [none |-> TRUE, rows |-> <<>>, file |-> file, contacted |-> FALSE]
    ELSE IF outcome \in {"none", "raise"}
    THEN [none |-> TRUE, rows |-> <<>>, file |-> file, contacted |-> TRUE]
    ELSE LET df == IF outcome = "empty" THEN <<>> ELSE SortValues(provided)
         IN  [none |-> FALSE, rows |-> df, file |-> to_csv(df), contacted |-> TRUE]

\* get_minute_data for one cache key: the value returned (none = None), the
\* cache file afterwards and whether the provider was contacted
get_minute_data(assetType, file, outcome, provided) ==
    IF file.exists
    THEN [none |-> FALSE, rows |-> read_csv(file), file |-> file, contacted |-> FALSE]
    ELSE IF assetType \notin AssetTypes
    THEN [none |-> TRUE, rows |-> <<>>, file |-> file, contacted |-> FALSE]
    ELSE IF outcome # "frame" \/ Len(provided) = 0
    THEN [none |-> TRUE, rows |-> <<>>, file |-> file, contacted |-> TRUE]
    ELSE LET df == SortValues(provided)
         IN  [none |-> FALSE, rows |-> df, file |-> to_csv(df), contacted |-> TRUE]

\* a cache key: the arguments of get_minute_data that name the file
CacheKey(code, asset_type, freq, start_date, end_date, save_dir) ==
    [code |-> code, asset_type |-> asset_type, freq |-> freq,
     start_date |-> start_date, end_date |-> end_date, save_dir |-> save_dir]

\* the file name without the freq field
FilepathWithoutFreq(key) ==
    key.save_dir \o "/" \o key.code \o "_" \o key.asset_type \o "_"
      \o key.start_date \o "_" \o key.end_date \o ".csv"

\* data_fetcher.py:118-119: os.path.join(save_dir,
\* f"{code}_{asset_type}_{freq}_{start_date}_{end_date}.csv")
Filepath(key) ==
    key.save_dir \o "/" \o key.code \o "_" \o key.asset_type \o "_" \o key.freq
      \o "_" \o key.start_date \o "_" \o key.end_date \o ".csv"

\* the calls callers make: the application's request (app.py:40, 87-93),
\* the fetcher's own example (data_fetcher.py:165-170), and requests that
\* differ from the first in one argument each, one of them with an asset
\* type that is not supported
Keys ==
    {CacheKey("000001.SZ", "stock", "60min", "20240101", "20241231", "minute_data"),
     CacheKey("RB2505.SHF", "future", "15min", "20240101", "20251231", "minute_data"),
     CacheKey("000001.SZ", "fund", "60min", "20240101", "20241231", "minute_data"),
     CacheKey("000001.SZ", "index", "60min", "20240101", "20241231", "minute_data"),
     CacheKey("000001.SZ", "stock", "15min", "20240101", "20241231", "minute_data"),
     CacheKey("000001.SZ", "stock", "60min", "20240601", "20241231", "minute_data"),
     CacheKey("000001.SZ", "stock", "60min", "20240101", "20240630", "minute_data"),
     CacheKey("000001.SZ", "stock", "60min", "20240101", "20241231", "data")}

\* the paths the calls can name
Paths == {Filepath(key) : key \in Keys}

\* a disk without csv files
NoFiles == [p \in Paths |-> NoFile]

\* no get_minute_data call was made
NoRequest == CacheKey("", "", "", "", "", "")

(* ------------------------ crossover detector -------------------------- *)

\* df['ema_diff'] = df['EMA_short'] - df['EMA_long'], at 1-based index k
ema_diff(df, k) == RSub(df[k].EMA_short, df[k].EMA_long)

\* the golden mask without the test of the previous bar (ema_diff > 0 only)
GoldenMaskEveryBar(df, k) == RSign(ema_diff(df, k)) > 0

\* GoldenMask with the previous diff required to be negative (< for <=)
GoldenMaskStrict(df, k) ==
    /\ k > 1
    /\ RSign(ema_diff(df, k)) > 0
    /\ RSign(ema_diff(df, k - 1)) < 0

\* DeathMask with the shift filled by 0 (shift(1, fill_value=0))
DeathMaskFilled(df, k) ==
    /\ RSign(ema_diff(df, k)) < 0
    /\ (IF k > 1 THEN RSign(ema_diff(df, k - 1)) ELSE 0) >= 0

\* the golden mask at 1-based index k; shift(1) is undefined on the first
\* row and every comparison with the undefined value is false
GoldenMask(df, k) ==
    /\ k > 1
    /\ RSign(ema_diff(df, k)) > 0
    /\ RSign(ema_diff(df, k - 1)) <= 0

DeathMask(df, k) ==
    /\ k > 1
    /\ RSign(ema_diff(df, k)) < 0
    /\ RSign(ema_diff(df, k - 1)) >= 0

\* df['crossover']: 0, then 1 on the golden mask, then -1 on the death mask
crossover(df, k) ==
    IF DeathMask(df, k) THEN -1 ELSE IF GoldenMask(df, k) THEN 1 ELSE 0

\* a level value that counts: isinstance(v, list) and len(v) >= 2
IsLevelList(v) == Len(v) >= 2

\* the label of the first row of a frame that has the date
FirstLabelOfDate(df, d) ==
    LET ks == {k \in 1..Len(df) : df[k].date = d}
    IN  df[CHOOSE k \in ks : \A j \in ks : k <= j].label

\* find_support_resistance(current_idx): <<support_levels, resistance_levels>>
find_support_resistance(selfdf, current_idx) ==
    IF current_idx < Len(selfdf)
    THEN LET row       == ILoc(selfdf, current_idx)
             df_sorted == SortValues(selfdf)
             loc       == GetLoc(df_sorted, FirstLabelOfDate(df_sorted, row.date))
             past      == ISlice(df_sorted, Max(0, loc - PastDays), loc + 1)
             sup       == SelectSeq(past, LAMBDA r : IsLevelList(r.support_levels))
             res       == SelectSeq(past, LAMBDA r : IsLevelList(r.resistance_levels))
             avg(rows, which, j) ==
                 Mean([k \in 1..Len(rows) |->
                         IF which = "s" THEN rows[k].support_levels[j]
                         ELSE rows[k].resistance_levels[j]])
         IN  << IF sup = <<>> THEN <<>> ELSE <<avg(sup, "s", 1), avg(sup, "s", 2)>>,
                IF res = <<>> THEN <<>> ELSE <<avg(res, "r", 1), avg(res, "r", 2)>> >>
    ELSE << <<>>, <<>> >>

\* prev_5_days with the slice ending behind the crossover row (loc + 1)
prev_5_days_with_current(df, idx) ==
    LET df_sorted == SortValues(df)
        loc       == GetLoc(df_sorted, FirstLabelOfDate(df_sorted, Loc(df, idx).date))
        prev_rows == ISlice(df_sorted, Max(0, loc - PrevDays), loc + 1)
    IN  [k \in 1..Len(prev_rows) |->
           [date |-> prev_rows[k].date, close |-> prev_rows[k].close,
            EMA_short |-> prev_rows[k].EMA_short, EMA_long |-> prev_rows[k].EMA_long]]

\* the rows before the crossover row with label idx: prev_5_days
prev_5_days(df, idx) ==
    LET df_sorted == SortValues(df)
        loc       == GetLoc(df_sorted, FirstLabelOfDate(df_sorted, Loc(df, idx).date))
        prev_rows == ISlice(df_sorted, Max(0, loc - PrevDays), loc)
    IN  [k \in 1..Len(prev_rows) |->
           [date |-> prev_rows[k].date, close |-> prev_rows[k].close,
            EMA_short |-> prev_rows[k].EMA_short, EMA_long |-> prev_rows[k].EMA_long]]

\* the event appended for the crossover row with label idx
CrossoverEvent(selfdf, idx) ==
    LET k   == GetLoc(selfdf, idx) + 1
        row == selfdf[k]
        lv  == find_support_resistance(selfdf, idx)
    IN  [date |-> row.date,
         type |-> IF crossover(selfdf, k) = 1 THEN "golden_cross" ELSE "death_cross",
         indicators |-> [close |-> RInt(row.close),
                         EMA_short |-> row.EMA_short, EMA_long |-> row.EMA_long,
                         support_levels |-> lv[1], resistance_levels |-> lv[2]],
         prev_5_days |-> prev_5_days(selfdf, idx)]

\* CrossoverIndex with a crossover right behind another one merged into it
CrossoverIndexMerged(df) ==
    LET marked == SelectSeq([k \in 1..Len(df) |-> k],
                            LAMBDA k : /\ crossover(df, k) # 0
                                       /\ ~(k > 1 /\ crossover(df, k - 1) # 0))
    IN  [j \in 1..Len(marked) |-> df[marked[j]].label]

\* df[df['crossover'] != 0].index: the labels of the crossover rows, in frame order
CrossoverIndex(df) ==
    LET marked == SelectSeq([k \in 1..Len(df) |-> k], LAMBDA k : crossover(df, k) # 0)
    IN  [j \in 1..Len(marked) |-> df[marked[j]].label]

\* a constructor's or a method's frame: its rows, and whether it is the very
\* object it was made from (shared) or a copy of it
NothingPassed == [rows |-> <<>>, shared |-> FALSE]

\* TechnicalIndicators.__init__: self.df = df.copy()
TechnicalIndicatorsInit(df) == [rows |-> df, shared |-> FALSE]

\* EMAAnalyzer.__init__: self.df = df.copy()
EMAAnalyzerInit(df) == [rows |-> df, shared |-> FALSE]

\* detect_crossovers working on self.df itself (df = self.df)
WorkingFrameShared(selfdf) == [rows |-> selfdf, shared |-> TRUE]

\* detect_crossovers: df = self.df.copy()
WorkingFrame(selfdf) == [rows |-> selfdf, shared |-> FALSE]

\* df['ema_diff'] and df['crossover'] assigned on the working frame
WithCrossoverColumns(df) ==
    [k \in 1..Len(df) |->
       [label |-> df[k].label, date |-> df[k].date, high |-> df[k].high,
        low |-> df[k].low, close |-> df[k].close,
        EMA_short |-> df[k].EMA_short, EMA_long |-> df[k].EMA_long,
        support_levels |-> df[k].support_levels,
        resistance_levels |-> df[k].resistance_levels,
        ema_diff |-> ema_diff(df, k), crossover |-> crossover(df, k)]]

\* self.df after detect_crossovers returned
StoredAfterDetect(selfdf) ==
    LET w == WorkingFrame(selfdf)
    IN  IF w.shared THEN WithCrossoverColumns(w.rows) ELSE selfdf

\* EMAAnalyzer.detect_crossovers(): the list of events
detect_crossovers(selfdf) ==
    LET idxs == CrossoverIndex(selfdf)
    IN  [j \in 1..Len(idxs) |-> CrossoverEvent(selfdf, idxs[j])]

(* --------------------- recommendation requester ----------------------- *)

\* ema_analyzer.py:277, the text returned when the call fails
Fallback == "fallback"

\* what the text-completion collaborator does with one request: a response
\* carrying generated text, an exception (transport error, timeout), or a
\* response without choices[0].message.content
LlmOutcomes ==
    {[kind |-> "ok", content |-> "open"], [kind |-> "ok", content |-> "stay"],
     [kind |-> "raise", content |-> ""], [kind |-> "malformed", content |-> ""]}

\* a value the format spec :.2f accepts: a number (the absent value is not)
IsNumber(v) == Len(v) = 2

\* f"{v:.2f}": the value in hundredths, rounded half to even
Fmt2(v) ==
    LET n == v[1] * 100
        q == n \div v[2]
        r == n - q * v[2]
    IN  IF 2 * r > v[2] \/ (2 * r = v[2] /\ q % 2 = 1) THEN q + 1 ELSE q

\* the level line of the prompt: both values formatted, or the no-data marker
LevelLine(levels) ==
    IF Len(levels) >= 2 THEN <<Fmt2(levels[1]), Fmt2(levels[2])>> ELSE <<>>

IndicatorKeys == {"close", "EMA_short", "EMA_long"}

\* _build_prompt raises: a key it subscripts is missing, or a value it
\* formats with :.2f is not a number
BuildPromptRaises(ev) ==
    \/ ~({"type", "indicators", "date"} \subseteq DOMAIN ev)
    \/ ~(IndicatorKeys \subseteq DOMAIN ev.indicators)
    \/ \E f \in IndicatorKeys : ~IsNumber(ev.indicators[f])
    \/ \E f \in {"support_levels", "resistance_levels"} \cap DOMAIN ev.indicators :
          /\ Len(ev.indicators[f]) >= 2
          /\ \E j \in 1..2 : ~IsNumber(ev.indicators[f][j])
    \/ /\ "prev_5_days" \in DOMAIN ev
       /\ \E k \in 1..Len(ev.prev_5_days) :
             \/ ~({"date", "close", "EMA_short", "EMA_long"}
                    \subseteq DOMAIN ev.prev_5_days[k])
             \/ ~IsNumber(ev.prev_5_days[k].EMA_short)
             \/ ~IsNumber(ev.prev_5_days[k].EMA_long)

\* indicators.get(key, []) of _build_prompt
GetLevels(ev, key) ==
    IF key \in DOMAIN ev.indicators THEN ev.indicators[key] ELSE <<>>

\* _build_prompt(crossover): the fields the prompt text carries
build_prompt(ev) ==
    [date |-> ev.date,
     cross_type |-> IF ev.type = "golden_cross" THEN "golden" ELSE "death",
     close |-> Fmt2(ev.indicators.close),
     EMA_short |-> Fmt2(ev.indicators.EMA_short),
     EMA_long |-> Fmt2(ev.indicators.EMA_long),
     support |-> LevelLine(GetLevels(ev, "support_levels")),
     resistance |-> LevelLine(GetLevels(ev, "resistance_levels")),
     days |-> IF "prev_5_days" \in DOMAIN ev THEN Len(ev.prev_5_days) ELSE 0]

\* get_trading_suggestion catching the collaborator's exception only, not a
\* malformed response
get_trading_suggestion_narrow(ev, o) ==
    IF BuildPromptRaises(ev)
    THEN [raised |-> TRUE, called |-> FALSE, text |-> ""]
    ELSE IF o.kind = "ok"
    THEN [raised |-> FALSE, called |-> TRUE, text |-> o.content]
    ELSE IF o.kind = "raise"
    THEN [raised |-> FALSE, called |-> TRUE, text |-> Fallback]
    ELSE [raised |-> TRUE, called |-> TRUE, text |-> ""]

\* get_trading_suggestion(crossover) when the collaborator answers with
\* outcome o: raised = an exception leaves the method, called = the request
\* reached the collaborator, text = the value returned
get_trading_suggestion(ev, o) ==
    IF BuildPromptRaises(ev)
    THEN [raised |-> TRUE, called |-> FALSE, text |-> ""]
    ELSE IF o.kind = "ok"
    THEN [raised |-> FALSE, called |-> TRUE, text |-> o.content]
    ELSE [raised |-> FALSE, called |-> TRUE, text |-> Fallback]

\* the result row app.py appends for an event and its decision
ResultRow(ev, decision) ==
    [date |-> ev.date,
     type |-> IF ev.type = "golden_cross" THEN "golden" ELSE "death",
     close |-> Fmt2(ev.indicators.close),
     EMA_short |-> Fmt2(ev.indicators.EMA_short),
     EMA_long |-> Fmt2(ev.indicators.EMA_long),
     decision |-> decision]

(* ------------------------------ state --------------------------------- *)

VARIABLES
    pc,         \* where the analysis run stands
    market,     \* the bars the provider holds for the request: [n, order, tail]
    cacheFile,  \* the csv file of the request's cache key
    periods,    \* <<ema_short_period, ema_long_period>>
    startDate,  \* start_date of the request
    df,         \* app.py's df
    analyzer,   \* EMAAnalyzer.df
    crossovers, \* the list detect_crossovers returned
    results,    \* app.py's results
    calls,      \* the requests that reached the text-completion collaborator
    assetType,  \* asset_type of the get_minute_data calls of the run
    provider,   \* what the provider did in the last get_minute_data call
    passed,     \* the series object last passed to a constructor, as it is now
    strategy,   \* the DualEMAStrategy instance of a back-test
    positions,  \* run_strategy's positions list
    trades,     \* run_strategy's trades list
    files,      \* the csv files on disk, by path
    request     \* the cache key of the last get_minute_data call

vars == <<pc, market, cacheFile, periods, startDate, df, analyzer, crossovers,
          results, calls, assetType, provider, passed,
          strategy, positions, trades, files, request>>

(* ----------------------------- inputs --------------------------------- *)

SeriesLengths ==
    (0..MaxShort) \cup {ScenarioBars}
        \cup ((LevelStart + 1)..(LevelStart + 1 + MaxOver))

\* the number of final bars whose close varies
TailLen(n) == IF n <= MaxShort THEN n ELSE MaxTail

CloseValues == {Base - 1, Base, Base + 1}

\* the provider's frame: n bars under a RangeIndex, newest first ("desc") or
\* oldest first ("asc"); dates are 1..n, closes are Base up to the tail
ProviderFrame(m) ==
    [k \in 1..m.n |->
       LET d == IF m.order = "asc" THEN k ELSE m.n + 1 - k
           c == IF d <= m.n - TailLen(m.n) THEN Base ELSE m.tail[d - (m.n - TailLen(m.n))]
       IN  [label |-> k - 1, date |-> d, high |-> c + HalfRange,
            low |-> c - HalfRange, close |-> c]]

Markets ==
    UNION {[n : {n}, order : {"asc", "desc"}, tail : [1..TailLen(n) -> CloseValues]] :
             n \in SeriesLengths}

\* app.py:64-69: the periods pass only when short < long
PeriodPairs == {<<1, 2>>, <<2, 3>>}

\* no back-test is under way: the fields DualEMAStrategy.__init__ sets
\* (ema_strategy.py:16-18), entry_time not set yet, no run_strategy call made
NoStrategy ==
    [position |-> 0, entry_price |-> <<0, 1>>, atr_value |-> <<0, 1>>, entry_time |-> 0]

(* ----------------------------- actions -------------------------------- *)

Init ==
    /\ pc = "start"
    /\ market \in Markets
    /\ cacheFile = NoFile
    /\ periods \in PeriodPairs
    /\ startDate \in 1..MaxStart
    /\ df = <<>>
    /\ analyzer = <<>>
    /\ crossovers = <<>>
    /\ results = <<>>
    /\ calls = <<>>
    /\ assetType = "stock"
    /\ provider = "idle"
    /\ passed = NothingPassed
    /\ strategy = NoStrategy
    /\ positions = <<>>
    /\ trades = <<>>
    /\ files = NoFiles
    /\ request = NoRequest

\* app.py:87-99: get_minute_data, then the branch on None
Fetch ==
    /\ pc = "start"
    /\ \E o \in ProviderOutcomes :
         LET r == get_minute_data(assetType, cacheFile, o, ProviderFrame(market))
         IN  /\ cacheFile' = r.file
             /\ df' = r.rows
             /\ provider' = IF r.contacted THEN o ELSE "idle"
             /\ pc' = IF r.none THEN "failed" ELSE "fetched"
    /\ UNCHANGED <<files, request, strategy, positions, trades, passed, assetType, market, periods, startDate, analyzer, crossovers,
                   results, calls>>

\* app.py:101-102: TechnicalIndicators(df), then calculate_all on its self.df
CalculateAll ==
    /\ pc = "fetched"
    /\ LET engine == TechnicalIndicatorsInit(df)
           out    == calculate_all(engine.rows, periods[1], periods[2])
       IN  /\ df' = out
           /\ passed' = [rows |-> IF engine.shared THEN out ELSE df,
                         shared |-> engine.shared]
    /\ pc' = "calculated"
    /\ UNCHANGED <<files, request, strategy, positions, trades, assetType, provider, market, cacheFile, periods, startDate, analyzer,
                   crossovers, results, calls>>

\* app.py:106-108: keep the rows dated start_date or later
FilterRows ==
    /\ pc = "calculated"
    /\ df' = SelectSeq(df, LAMBDA r : r.date >= startDate)
    /\ pc' = "filtered"
    /\ UNCHANGED <<files, request, strategy, positions, trades, passed, assetType, provider, market, cacheFile, periods, startDate, analyzer, crossovers,
                   results, calls>>

\* app.py:113, ema_analyzer.py:23: EMAAnalyzer(df, ...)
CreateAnalyzer ==
    /\ pc = "filtered"
    /\ LET a == EMAAnalyzerInit(df)
       IN  /\ analyzer' = a.rows
           /\ passed' = [rows |-> df, shared |-> a.shared]
    /\ pc' = "analyzer"
    /\ UNCHANGED <<files, request, strategy, positions, trades, assetType, provider, market, cacheFile, periods, startDate, df,
                   crossovers, results, calls>>

\* app.py:116, 122: detect_crossovers works on its frame df; what it assigns
\* to df reaches self.df, and the object the analyzer was built from, only
\* where they are the same object
DetectCrossovers ==
    /\ pc = "analyzer"
    /\ crossovers' = detect_crossovers(analyzer)
    /\ LET stored == StoredAfterDetect(analyzer)
       IN  /\ analyzer' = stored
           /\ df' = IF passed.shared THEN stored ELSE df
           /\ passed' = [passed EXCEPT !.rows = IF passed.shared THEN stored ELSE @]
    /\ results' = <<>>
    /\ pc' = "detected"
    /\ UNCHANGED <<files, request, strategy, positions, trades, assetType, provider, market, cacheFile, periods, startDate, calls>>

\* Suggest leaving the loop after a failed call (break on the fallback text)
SuggestBreak ==
    /\ pc = "detected"
    /\ Len(results) < Len(crossovers)
    /\ \E o \in LlmOutcomes :
         LET ev == crossovers[Len(results) + 1]
             r  == get_trading_suggestion(ev, o)
         IN  /\ calls' = IF r.called
                         THEN Append(calls, [date |-> ev.date, kind |-> o.kind,
                                             content |-> o.content])
                         ELSE calls
             /\ results' = IF r.raised THEN results
                           ELSE Append(results, ResultRow(ev, r.text))
             /\ pc' = IF r.raised THEN "crashed"
                      ELSE IF r.text = Fallback THEN "done" ELSE "detected"
    /\ UNCHANGED <<files, request, strategy, positions, trades, passed, assetType, provider, market, cacheFile, periods, startDate, df, analyzer, crossovers>>

\* app.py:124-136: one turn of the loop over the events
Suggest ==
    /\ pc = "detected"
    /\ Len(results) < Len(crossovers)
    /\ \E o \in LlmOutcomes :
         LET ev == crossovers[Len(results) + 1]
             r  == get_trading_suggestion(ev, o)
         IN  /\ calls' = IF r.called
                         THEN Append(calls, [date |-> ev.date, kind |-> o.kind,
                                             content |-> o.content])
                         ELSE calls
             /\ results' = IF r.raised THEN results
                           ELSE Append(results, ResultRow(ev, r.text))
             /\ pc' = IF r.raised THEN "crashed" ELSE "detected"
    /\ UNCHANGED <<files, request, strategy, positions, trades, passed, assetType, provider, market, cacheFile, periods, startDate, df, analyzer, crossovers>>

\* app.py:138-144: the loop is over
Finish ==
    /\ pc = "detected"
    /\ Len(results) = Len(crossovers)
    /\ pc' = "done"
    /\ UNCHANGED <<files, request, strategy, positions, trades, passed, assetType, provider, market, cacheFile, periods, startDate, df, analyzer, crossovers,
                   results, calls>>

\* app.py:77: the button is pressed again with the same inputs
Rerun ==
    /\ pc \in {"done", "failed"}
    /\ pc' = "start"
    /\ df' = <<>>
    /\ analyzer' = <<>>
    /\ crossovers' = <<>>
    /\ results' = <<>>
    /\ calls' = <<>>
    /\ provider' = "idle"
    /\ passed' = NothingPassed
    /\ UNCHANGED <<files, request, strategy, positions, trades, assetType, market, cacheFile, periods, startDate>>

Next ==
    \/ Fetch
    \/ CalculateAll
    \/ FilterRows
    \/ CreateAnalyzer
    \/ DetectCrossovers
    \/ Suggest
    \/ Finish
    \/ Rerun

Spec == Init /\ [][Next]_vars

(* ------------- the detector on a frame handed to it directly ---------- *)

\* an indicator frame of n rows dated 1..n: diff[k] is the sign of
\* EMA_short - EMA_long on row k, lv[k] tells whether row k carries levels,
\* and the labels are 0..n-1 ("range"), n-1..0 ("reversed": sorted by date
\* and not renumbered) or 1..n ("shifted": one leading row filtered away)
AnalyzerFrame(n, diff, lv, scheme) ==
    [k \in 1..n |->
       [label |-> IF scheme = "range" THEN k - 1
                  ELSE IF scheme = "reversed" THEN n - k ELSE k,
        date |-> k, high |-> Base + HalfRange, low |-> Base - HalfRange,
        close |-> Base,
        EMA_short |-> RInt(Base + diff[k]), EMA_long |-> RInt(Base),
        support_levels |-> IF lv[k] THEN <<RInt(k), RInt(Base + k)>> ELSE NoLevels,
        resistance_levels |->
            IF lv[k] THEN <<RInt(3 * Base + k), RInt(2 * Base + k)>> ELSE NoLevels]]

InitDetect ==
    /\ pc = "analyzer"
    /\ market = [n |-> 0, order |-> "asc", tail |-> <<>>]
    /\ cacheFile = NoFile
    /\ periods = <<1, 2>>
    /\ startDate = 1
    /\ \E n \in 0..MaxRows :
         \E diff \in [1..n -> {-1, 0, 1}], lv \in [1..n -> BOOLEAN],
            scheme \in {"range", "reversed", "shifted"} :
              analyzer = AnalyzerFrame(n, diff, lv, scheme)
    /\ df = analyzer
    /\ crossovers = <<>>
    /\ results = <<>>
    /\ calls = <<>>
    /\ assetType = "stock"
    /\ provider = "idle"
    /\ passed = [rows |-> analyzer, shared |-> FALSE]
    /\ strategy = NoStrategy
    /\ positions = <<>>
    /\ trades = <<>>
    /\ files = NoFiles
    /\ request = NoRequest

NextDetect == DetectCrossovers

SpecDetect == InitDetect /\ [][NextDetect]_vars

(* ------- a run whose caller names the asset type ---------------------- *)

\* the asset types a caller may pass: the supported ones and another one
RequestedTypes == AssetTypes \cup {"index"}

InitFetch ==
    /\ pc = "start"
    /\ market \in {m \in Markets : m.n <= MaxShort}
    /\ cacheFile = NoFile
    /\ periods = <<1, 2>>
    /\ startDate = 1
    /\ df = <<>>
    /\ analyzer = <<>>
    /\ crossovers = <<>>
    /\ results = <<>>
    /\ calls = <<>>
    /\ assetType \in RequestedTypes
    /\ provider = "idle"
    /\ passed = NothingPassed
    /\ strategy = NoStrategy
    /\ positions = <<>>
    /\ trades = <<>>
    /\ files = NoFiles
    /\ request = NoRequest

SpecFetch == InitFetch /\ [][Next]_vars

(* ------- get_minute_data called again and again, with any key --------- *)

\* what the provider holds for a request: two bars, newest first, whose
\* last close depends on the security and the bar frequency asked for
ProviderMarket(key) ==
    [n |-> 2, order |-> "desc",
     tail |-> <<Base, IF key.code = "000001.SZ" /\ key.freq = "60min" THEN Base ELSE Base + 1>>]

\* a process start on an empty save_dir: no call made yet
InitCache ==
    /\ pc = "no_call"
    /\ files = NoFiles
    /\ request = NoRequest
    /\ market = ProviderMarket(NoRequest)
    /\ cacheFile = NoFile
    /\ periods = <<1, 2>>
    /\ startDate = 1
    /\ df = <<>>
    /\ analyzer = <<>>
    /\ crossovers = <<>>
    /\ results = <<>>
    /\ calls = <<>>
    /\ assetType = "stock"
    /\ provider = "idle"
    /\ passed = NothingPassed
    /\ strategy = NoStrategy
    /\ positions = <<>>
    /\ trades = <<>>

\* data_fetcher.py:111-156: one get_minute_data call with the key's
\* arguments, on the files as they are
GetMinuteData ==
    /\ pc \in {"no_call", "returned_none", "returned_frame"}
    /\ \E key \in Keys, o \in ProviderOutcomes :
         LET path == Filepath(key)
             m    == ProviderMarket(key)
             r    == get_minute_data(key.asset_type, files[path], o, ProviderFrame(m))
         IN  /\ files' = [files EXCEPT ![path] = r.file]
             /\ request' = key
             /\ assetType' = key.asset_type
             /\ market' = IF r.contacted THEN m ELSE market
             /\ df' = r.rows
             /\ provider' = IF r.contacted THEN o ELSE "idle"
             /\ pc' = IF r.none THEN "returned_none" ELSE "returned_frame"
    /\ UNCHANGED <<strategy, positions, trades, cacheFile, periods, startDate, analyzer,
                   crossovers, results, calls, passed>>

NextCache == GetMinuteData

SpecCache == InitCache /\ [][NextCache]_vars

(* ------- the EMAs of a long rising series, in fixed point -------------- *)

\* The exact EMAs of a series that moves on every bar have denominators
\* (span + 1)^t.  Here every EMA value is enclosed between two multiples of
\* 1/Scale, <<lo, hi>> with lo <= exact value <= hi, rounding down and up.
Scale == 1000

TrendBars == 40

\* y[t] = ((span - 1) * y[t-1] + 2 * x[t]) / (span + 1), ewm(adjust=False),
\* on an enclosure; pandas keeps y[t-1] when it equals x[t]
EncStep(prev, x, span) ==
    IF prev[1] = x /\ prev[2] = x THEN prev
    ELSE <<((span - 1) * prev[1] + 2 * x) \div (span + 1),
           -((-((span - 1) * prev[2] + 2 * x)) \div (span + 1))>>

RECURSIVE EncFrom(_, _, _, _)
EncFrom(xs, k, ys, span) ==
    IF k > Len(xs) \/ Len(ys) # k - 1 THEN ys
    ELSE EncFrom(xs, k + 1,
                 Append(ys, IF k = 1 THEN <<xs[1], xs[1]>>
                            ELSE EncStep(ys[k - 1], xs[k], span)),
                 span)

\* calculate_ema(period) on closes given in units of 1/Scale
calculate_ema_enclosed(xs, period) == EncFrom(xs, 1, <<>>, period)

\* the sign of EMA_long - EMA_short (the operands exchanged)
EncDiffSignReversed(s, l) ==
    IF l[1] > s[2] THEN 1
    ELSE IF l[2] < s[1] THEN -1
    ELSE IF s[1] = s[2] /\ l[1] = l[2] /\ s[1] = l[1] THEN 0
    ELSE 2

\* the sign of ema_diff = EMA_short - EMA_long: 1, -1, 0, or 2 where the
\* enclosures do not decide it
EncDiffSign(s, l) ==
    IF s[1] > l[2] THEN 1
    ELSE IF s[2] < l[1] THEN -1
    ELSE IF s[1] = s[2] /\ l[1] = l[2] /\ s[1] = l[1] THEN 0
    ELSE 2

\* df['crossover'] of row k from the signs of ema_diff: 1, -1, 0, or 2 where
\* an undecided sign leaves it open
EncCrossover(sg, k) ==
    IF k = 1 THEN 0
    ELSE IF sg[k] = 2 \/ (sg[k] # 0 /\ sg[k - 1] = 2) THEN 2
    ELSE IF sg[k] < 0 /\ sg[k - 1] >= 0 THEN -1
    ELSE IF sg[k] > 0 /\ sg[k - 1] <= 0 THEN 1
    ELSE 0

\* the rising series close[t] = first + step * t, t = 0..n-1, in units of 1/Scale
TrendCloses(m) == [k \in 1..m.n |-> (m.first + m.step * (k - 1)) * Scale]

TrendMarkets ==
    [n : (TrendBars - 20)..TrendBars, first : {100}, step : {1, 2}]

TrendPeriods == {<<8, 21>>, <<5, 8>>, <<1, 2>>}

InitTrend ==
    /\ pc = "trend"
    /\ market \in TrendMarkets
    /\ cacheFile = NoFile
    /\ periods \in TrendPeriods
    /\ startDate = 1
    /\ df = <<>>
    /\ analyzer = <<>>
    /\ crossovers = <<>>
    /\ results = <<>>
    /\ calls = <<>>
    /\ assetType = "stock"
    /\ provider = "idle"
    /\ passed = NothingPassed
    /\ strategy = NoStrategy
    /\ positions = <<>>
    /\ trades = <<>>
    /\ files = NoFiles
    /\ request = NoRequest

\* calculate_all: the EMA columns of the series
TrendCalculate ==
    /\ pc = "trend"
    /\ LET xs == TrendCloses(market)
           es == calculate_ema_enclosed(xs, periods[1])
           el == calculate_ema_enclosed(xs, periods[2])
       IN  df' = [k \in 1..market.n |->
                    [label |-> k - 1, date |-> k, close |-> xs[k],
                     EMA_short |-> es[k], EMA_long |-> el[k]]]
    /\ pc' = "trend_calculated"
    /\ UNCHANGED <<files, request, strategy, positions, trades, market, cacheFile, periods, startDate, analyzer, crossovers,
                   results, calls, assetType, provider, passed>>

\* detect_crossovers: one event per row whose crossover is not 0
TrendDetect ==
    /\ pc = "trend_calculated"
    /\ LET sg     == [k \in 1..Len(df) |-> EncDiffSign(df[k].EMA_short, df[k].EMA_long)]
           marked == SelectSeq([k \in 1..Len(df) |-> k],
                               LAMBDA k : EncCrossover(sg, k) # 0)
       IN  crossovers' =
             [j \in 1..Len(marked) |->
                [date |-> df[marked[j]].date,
                 type |-> IF EncCrossover(sg, marked[j]) = 1 THEN "golden_cross"
                          ELSE IF EncCrossover(sg, marked[j]) = -1 THEN "death_cross"
                          ELSE "undecided"]]
    /\ analyzer' = df
    /\ pc' = "trend_detected"
    /\ UNCHANGED <<files, request, strategy, positions, trades, market, cacheFile, periods, startDate, df, results, calls,
                   assetType, provider, passed>>

NextTrend == TrendCalculate \/ TrendDetect

SpecTrend == InitTrend /\ [][NextTrend]_vars

(* ------- calculate_rsi on a close series ------------------------------ *)

RsiPeriod == 14

RsiBars == 20

\* the float values that are no numbers: not-a-number and plus infinity
Nan == <<0, 0>>

Inf == <<1, 0>>

\* a / b for a, b >= 0 that yields not-a-number whenever b is 0
FloatDivNanOnZero(a, b) ==
    IF b[1] = 0 THEN Nan ELSE Rat(a[1] * b[2], a[2] * b[1])

\* a / b of two float Series for a, b >= 0: x / 0 is inf for x > 0 and
\* not-a-number for x = 0, and nothing is raised
FloatDiv(a, b) ==
    IF b[1] = 0 THEN (IF a[1] = 0 THEN Nan ELSE Inf)
    ELSE Rat(a[1] * b[2], a[2] * b[1])

\* close.diff() at 1-based index j; the first one is not-a-number, which
\* where(delta > 0, 0) and where(delta < 0, 0) both replace by 0
Delta(xs, j) == IF j = 1 THEN 0 ELSE xs[j] - xs[j - 1]

RECURSIVE SumOver(_, _, _, _, _)
SumOver(xs, j, k, sign, acc) ==
    IF j > k THEN acc
    ELSE SumOver(xs, j + 1, k, sign,
                 acc + (IF sign * Delta(xs, j) > 0 THEN sign * Delta(xs, j) ELSE 0))

\* rolling(window=period).mean() of the gains (sign 1) or losses (sign -1)
\* at index k >= period
RollingMean(xs, k, sign, period) ==
    Rat(SumOver(xs, k - period + 1, k, sign, 0), period)

\* 100 - (100 / (1 + rs))
RsiOfRs(rs) ==
    IF rs = Nan THEN Nan
    ELSE IF rs = Inf THEN RInt(100)
    ELSE RSub(RInt(100), FloatDiv(RInt(100), RAdd(RInt(1), rs)))

\* calculate_rsi(period) at 1-based index k
calculate_rsi(xs, k, period) ==
    IF k < period THEN Nan
    ELSE RsiOfRs(FloatDiv(RollingMean(xs, k, 1, period),
                          RollingMean(xs, k, -1, period)))

\* a close series: a steady trend (falling, flat, rising) from 100, then
\* MaxTail bars that each step down, stay or step up
RsiMarkets ==
    [n : (RsiBars - 6)..RsiBars, trend : {-1, 0, 1}, tail : [1..MaxTail -> {-1, 0, 1}]]

RECURSIVE RsiClosesFrom(_, _, _)
RsiClosesFrom(m, k, xs) ==
    IF k > m.n \/ Len(xs) # k - 1 THEN xs
    ELSE RsiClosesFrom(m, k + 1,
           Append(xs, IF k = 1 THEN 100
                      ELSE IF k <= m.n - MaxTail THEN xs[k - 1] + m.trend
                      ELSE xs[k - 1] + m.tail[k - (m.n - MaxTail)]))

RsiCloses(m) == RsiClosesFrom(m, 1, <<>>)

InitRsi ==
    /\ pc = "rsi"
    /\ market \in RsiMarkets
    /\ cacheFile = NoFile
    /\ periods = <<1, 2>>
    /\ startDate = 1
    /\ df = <<>>
    /\ analyzer = <<>>
    /\ crossovers = <<>>
    /\ results = <<>>
    /\ calls = <<>>
    /\ assetType = "stock"
    /\ provider = "idle"
    /\ passed = NothingPassed
    /\ strategy = NoStrategy
    /\ positions = <<>>
    /\ trades = <<>>
    /\ files = NoFiles
    /\ request = NoRequest

\* technical_indicators.py:60: self.df['RSI'] = self.calculate_rsi()
RsiCalculate ==
    /\ pc = "rsi"
    /\ LET xs == RsiCloses(market)
       IN  df' = [k \in 1..market.n |->
                    [label |-> k - 1, date |-> k, close |-> xs[k],
                     RSI |-> calculate_rsi(xs, k, RsiPeriod)]]
    /\ pc' = "rsi_calculated"
    /\ UNCHANGED <<files, request, strategy, positions, trades, market, cacheFile, periods, startDate, analyzer, crossovers,
                   results, calls, assetType, provider, passed>>

NextRsi == RsiCalculate

SpecRsi == InitRsi /\ [][NextRsi]_vars

(* ------- the detector on a frame with two bars of one date ------------ *)

\* an indicator frame of n rows under the labels 0..n-1 in which the rows
\* dupAt and dupAt + 1 carry the same date
DuplicateDateFrame(n, diff, lv, dupAt) ==
    [k \in 1..n |->
       [label |-> k - 1,
        date |-> IF k <= dupAt THEN k ELSE k - 1,
        high |-> Base + k + HalfRange, low |-> Base + k - HalfRange, close |-> Base + k,
        EMA_short |-> RInt(Base + diff[k]), EMA_long |-> RInt(Base),
        support_levels |-> IF lv[k] THEN <<RInt(k), RInt(Base + k)>> ELSE NoLevels,
        resistance_levels |->
            IF lv[k] THEN <<RInt(3 * Base + k), RInt(2 * Base + k)>> ELSE NoLevels]]

InitDuplicate ==
    /\ pc = "analyzer"
    /\ market = [n |-> 0, order |-> "asc", tail |-> <<>>]
    /\ cacheFile = NoFile
    /\ periods = <<1, 2>>
    /\ startDate = 1
    /\ \E n \in 2..MaxRows :
         \E diff \in [1..n -> {-1, 0, 1}], lv \in [1..n -> BOOLEAN], dupAt \in 1..(n - 1) :
              analyzer = DuplicateDateFrame(n, diff, lv, dupAt)
    /\ df = analyzer
    /\ crossovers = <<>>
    /\ results = <<>>
    /\ calls = <<>>
    /\ assetType = "stock"
    /\ provider = "idle"
    /\ passed = [rows |-> analyzer, shared |-> FALSE]
    /\ strategy = NoStrategy
    /\ positions = <<>>
    /\ trades = <<>>
    /\ files = NoFiles
    /\ request = NoRequest

SpecDuplicate == InitDuplicate /\ [][NextDetect]_vars

(* ------- the requester on an event handed to it directly ------------- *)

\* the absent value (None) where a number is expected
NoneValue == <<>>

\* events as a caller may build them: values that are numbers or None,
\* level lists that are empty, well formed or carry None
FullEvents ==
    [date : {1}, type : {"golden_cross", "death_cross"},
     indicators : [close : {RInt(Base), NoneValue},
                   EMA_short : {RInt(Base + 1), NoneValue},
                   EMA_long : {RInt(Base)},
                   support_levels : {<<>>, <<RInt(Base - 2), RInt(Base - 1)>>,
                                     <<RInt(Base - 2), NoneValue>>},
                   resistance_levels : {<<>>, <<RInt(Base + 2), RInt(Base + 1)>>}],
     prev_5_days : {<<>>, <<[date |-> 0, close |-> Base,
                             EMA_short |-> RInt(Base), EMA_long |-> RInt(Base)]>>}]

\* events that lack a key: no prev_5_days, no level lists, no indicators
PartialEvents ==
    {[date |-> 1, type |-> "golden_cross",
      indicators |-> [close |-> RInt(Base), EMA_short |-> RInt(Base + 1),
                      EMA_long |-> RInt(Base), support_levels |-> <<>>,
                      resistance_levels |-> <<>>]],
     [date |-> 1, type |-> "death_cross",
      indicators |-> [close |-> RInt(Base), EMA_short |-> RInt(Base - 1),
                      EMA_long |-> RInt(Base)],
      prev_5_days |-> <<>>],
     [date |-> 1, type |-> "golden_cross", prev_5_days |-> <<>>]}

InitSuggest ==
    /\ pc = "detected"
    /\ market = [n |-> 0, order |-> "asc", tail |-> <<>>]
    /\ cacheFile = NoFile
    /\ periods = <<1, 2>>
    /\ startDate = 1
    /\ df = <<>>
    /\ analyzer = <<>>
    /\ \E ev \in FullEvents \cup PartialEvents : crossovers = <<ev>>
    /\ results = <<>>
    /\ calls = <<>>
    /\ assetType = "stock"
    /\ provider = "idle"
    /\ passed = NothingPassed
    /\ strategy = NoStrategy
    /\ positions = <<>>
    /\ trades = <<>>
    /\ files = NoFiles
    /\ request = NoRequest

NextSuggest == Suggest \/ Finish

SpecSuggest == InitSuggest /\ [][NextSuggest]_vars

(* ------- DualEMAStrategy.run_strategy on a frame with its signals ------ *)

\* a >= b on floats: False when one of them is not a number
FloatGe(a, b) == a # Nan /\ b # Nan /\ ~RLess(a, b)

\* a <= b on floats: False when one of them is not a number
FloatLe(a, b) == a # Nan /\ b # Nan /\ ~RLess(b, a)

\* price + k/m * atr on floats
Level(price, atr, k, m) == IF atr = Nan THEN Nan ELSE RAdd(price, RScale(atr, k, m))

\* DualEMAStrategy(): position 0, entry_price 0, atr_value 0, no entry_time
DualEMAStrategyInit == NoStrategy

\* ema_strategy.py:90-94: the long position's take-profit or stop-loss is hit
LongExit(s, bar) ==
    LET profit_level == Level(s.entry_price, s.atr_value, 3, 1)
        stop_loss    == Level(s.entry_price, s.atr_value, -5, 2)
    IN  FloatGe(RInt(bar.high), profit_level) \/ FloatLe(RInt(bar.low), stop_loss)

\* ema_strategy.py:107-110: the short position's take-profit or stop-loss is hit
ShortExit(s, bar) ==
    LET profit_level == Level(s.entry_price, s.atr_value, -3, 1)
        stop_loss    == Level(s.entry_price, s.atr_value, 5, 2)
    IN  FloatLe(RInt(bar.low), profit_level) \/ FloatGe(RInt(bar.high), stop_loss)

\* ema_strategy.py:95-103 and 111-119: the trade appended on an exit
TradeRecord(s, bar) ==
    [entry_time  |-> s.entry_time,
     exit_time   |-> bar.label,
     type        |-> IF s.position > 0 THEN "LONG" ELSE "SHORT",
     entry_price |-> s.entry_price,
     exit_price  |-> RInt(bar.close),
     pnl         |-> IF s.position > 0
                     THEN RSub(RInt(bar.close), s.entry_price)
                     ELSE RSub(s.entry_price, RInt(bar.close)),
     exit_type   |-> IF s.position > 0
                     THEN (IF FloatGe(RInt(bar.high), Level(s.entry_price, s.atr_value, 3, 1))
                           THEN "take_profit" ELSE "stop_loss")
                     ELSE (IF FloatLe(RInt(bar.low), Level(s.entry_price, s.atr_value, -3, 1))
                           THEN "take_profit" ELSE "stop_loss")]

\* ema_strategy.py:88-120: the exit test of one bar; the trades it appends
\* and the instance afterwards
ExitStep(s, bar) ==
    IF s.position # 0 /\ (IF s.position > 0 THEN LongExit(s, bar) ELSE ShortExit(s, bar))
    THEN [strategy |-> [s EXCEPT !.position = 0], trades |-> <<TradeRecord(s, bar)>>]
    ELSE [strategy |-> s, trades |-> <<>>]

\* the entry test taking a signal whatever the position is
MayOpenAlways(s) == TRUE

\* ema_strategy.py:123   if self.position == 0
MayOpen(s) == s.position = 0

\* ema_strategy.py:123-134: the entry test of one bar
EntryStep(s, bar) ==
    IF MayOpen(s) /\ (bar.long_signal \/ bar.short_signal)
    THEN [position    |-> IF bar.long_signal THEN 1 ELSE -1,
          entry_price |-> RInt(bar.close),
          atr_value   |-> bar.atr,
          entry_time  |-> bar.label]
    ELSE s

\* ema_strategy.py:85-136: one pass of the loop body on current_bar
LoopBody(s, bar) ==
    LET x == ExitStep(s, bar)
    IN  [strategy |-> EntryStep(x.strategy, bar), trades |-> x.trades]

\* df_15min['position'] = positions, on the row at 1-based index k
WithPosition(bar, p) ==
    [label |-> bar.label, high |-> bar.high, low |-> bar.low, close |-> bar.close,
     atr |-> bar.atr, long_signal |-> bar.long_signal,
     short_signal |-> bar.short_signal, position |-> p]

\* the closes of a back-test frame: far enough apart for a bar to reach a
\* level 3 or 2.5 ATR away from the entry price
StrategyCloses == {Base - 5 * HalfRange, Base, Base + 5 * HalfRange}

\* the signal columns of one bar: long_signal needs the hourly close above
\* its SMA200 and short_signal needs it below, so they are never both set
SignalValues == {"long", "short", "none"}

\* the frame run_strategy loops over, indexed by date: n bars with the given
\* closes and signals; ATR is not a number on the first warm bars and
\* 2 * HalfRange (the bars' range) afterwards
StrategyFrame(n, closes, signals, warm) ==
    [k \in 1..n |->
       [label |-> k, high |-> closes[k] + HalfRange, low |-> closes[k] - HalfRange,
        close |-> closes[k],
        atr |-> IF k <= warm THEN Nan ELSE RInt(2 * HalfRange),
        long_signal |-> signals[k] = "long",
        short_signal |-> signals[k] = "short"]]

\* a fresh DualEMAStrategy and a frame, at the head of run_strategy's loop
InitStrategy ==
    /\ pc = "first_run"
    /\ \E n \in 1..StrategyBars :
         \E closes \in [1..n -> StrategyCloses], signals \in [1..n -> SignalValues],
            warm \in 0..1 :
           df = StrategyFrame(n, closes, signals, warm)
    /\ strategy = DualEMAStrategyInit
    /\ positions = <<>>
    /\ trades = <<>>
    /\ files = NoFiles
    /\ request = NoRequest
    /\ market = [n |-> 0, order |-> "asc", tail |-> <<>>]
    /\ cacheFile = NoFile
    /\ periods = <<1, 2>>
    /\ startDate = 1
    /\ analyzer = <<>>
    /\ crossovers = <<>>
    /\ results = <<>>
    /\ calls = <<>>
    /\ assetType = "future"
    /\ provider = "idle"
    /\ passed = NothingPassed

\* ema_strategy.py:84-136: the loop body on the next bar
StrategyBar ==
    /\ pc \in {"first_run", "later_run"}
    /\ Len(positions) < Len(df)
    /\ LET r == LoopBody(strategy, df[Len(positions) + 1])
       IN  /\ strategy' = r.strategy
           /\ trades' = trades \o r.trades
           /\ positions' = Append(positions, r.strategy.position)
    /\ UNCHANGED <<files, request, pc, market, cacheFile, periods, startDate, df, analyzer, crossovers,
                   results, calls, assetType, provider, passed>>

\* ema_strategy.py:138-139: the position column is set and the call returns
StrategyReturn ==
    /\ pc \in {"first_run", "later_run"}
    /\ Len(positions) = Len(df)
    /\ df' = [k \in 1..Len(df) |-> WithPosition(df[k], positions[k])]
    /\ pc' = IF pc = "first_run" THEN "first_returned" ELSE "later_returned"
    /\ UNCHANGED <<files, request, strategy, positions, trades, market, cacheFile, periods, startDate,
                   analyzer, crossovers, results, calls, assetType, provider, passed>>

\* run_strategy is called on the same instance once more, on the same frame
\* (ema_strategy.py:81-82: fresh positions and trades lists, the instance's
\* fields as the call before left them)
StrategyRunAgain ==
    /\ pc = "first_returned"
    /\ pc' = "later_run"
    /\ positions' = <<>>
    /\ trades' = <<>>
    /\ UNCHANGED <<files, request, strategy, market, cacheFile, periods, startDate, df, analyzer,
                   crossovers, results, calls, assetType, provider, passed>>

NextStrategy == StrategyBar \/ StrategyReturn \/ StrategyRunAgain

SpecStrategy == InitStrategy /\ [][NextStrategy]_vars

(* ------------------------------ claims -------------------------------- *)

\* the sign of EMA_short - EMA_long on the row at 1-based index k
DiffSign(f, k) ==
    LET a == f[k].EMA_short
        b == f[k].EMA_long
    IN  IF a[1] * b[2] > b[1] * a[2] THEN 1
        ELSE IF a[1] * b[2] < b[1] * a[2] THEN -1 ELSE 0

IsGoldenBar(f, k) == k > 1 /\ DiffSign(f, k) > 0 /\ DiffSign(f, k - 1) <= 0

IsDeathBar(f, k) == k > 1 /\ DiffSign(f, k) < 0 /\ DiffSign(f, k - 1) >= 0

\* an event of the given type is reported for the bar dated d
Reported(type, d) ==
    \E j \in 1..Len(crossovers) : crossovers[j].date = d /\ crossovers[j].type = type

\* the 1-based indices of the crossover bars
CrossBars(f) == {k \in 1..Len(f) : IsGoldenBar(f, k) \/ IsDeathBar(f, k)}

\* the j-th crossover bar
KthCrossBar(f, j) ==
    CHOOSE k \in CrossBars(f) : Cardinality({i \in CrossBars(f) : i < k}) = j - 1

\* C1: every bar with a predecessor is reported as golden_cross iff
\* diff[t] > 0 and diff[t-1] <= 0, as death_cross iff diff[t] < 0 and
\* diff[t-1] >= 0, is otherwise not reported, and is never reported as both.
C1_CrossoverRule ==
    pc = "detected" =>
        \A k \in 2..Len(analyzer) :
            /\ Reported("golden_cross", analyzer[k].date) <=> IsGoldenBar(analyzer, k)
            /\ Reported("death_cross", analyzer[k].date) <=> IsDeathBar(analyzer, k)
            /\ ~(/\ Reported("golden_cross", analyzer[k].date)
                 /\ Reported("death_cross", analyzer[k].date))

\* a golden cross out of diff = 0, a death cross and an unreported bar with
\* diff # 0 in one detected series
C1_Witness ==
    /\ pc = "detected"
    /\ \E k \in 2..Len(analyzer) :
          /\ DiffSign(analyzer, k - 1) = 0
          /\ Reported("golden_cross", analyzer[k].date)
    /\ \E k \in 2..Len(analyzer) : Reported("death_cross", analyzer[k].date)
    /\ \E k \in 2..Len(analyzer) :
          /\ DiffSign(analyzer, k) # 0
          /\ ~Reported("golden_cross", analyzer[k].date)
          /\ ~Reported("death_cross", analyzer[k].date)

\* C2: the first bar of the series is never reported as a crossover,
\* whatever its diff; a series of 0 or 1 bars yields an empty event list.
C2_FirstBarNeverCrosses ==
    pc = "detected" =>
        /\ Len(analyzer) >= 1 =>
              \A j \in 1..Len(crossovers) : crossovers[j].date # analyzer[1].date
        /\ Len(analyzer) <= 1 => crossovers = <<>>

\* a detected series whose first bar has diff # 0 and which has events
C2_Witness ==
    /\ pc = "detected"
    /\ Len(analyzer) >= 2
    /\ DiffSign(analyzer, 1) # 0
    /\ crossovers # <<>>
    /\ \A j \in 1..Len(crossovers) : crossovers[j].date # analyzer[1].date

\* C3: one event per crossover bar, adjacent crossover bars each with an
\* event of their own, and the events in the order of their bars.
C3_OneEventPerBar ==
    pc = "detected" =>
        /\ Len(crossovers) = Cardinality(CrossBars(analyzer))
        /\ \A j \in 1..Len(crossovers) :
              crossovers[j].date = analyzer[KthCrossBar(analyzer, j)].date
        /\ \A j \in 1..(Len(crossovers) - 1) :
              crossovers[j].date < crossovers[j + 1].date

\* two crossover bars on adjacent positions, each with its own event
C3_Witness ==
    /\ pc = "detected"
    /\ \E k \in 2..(Len(analyzer) - 1) :
          /\ {k, k + 1} \subseteq CrossBars(analyzer)
          /\ \E j \in 1..(Len(crossovers) - 1) :
                /\ crossovers[j].date = analyzer[k].date
                /\ crossovers[j + 1].date = analyzer[k + 1].date

\* the dates of a frame ascend strictly
DatesAscend(f) == \A k \in 1..(Len(f) - 1) : f[k].date < f[k + 1].date

\* the 1-based index of the bar of a frame that has the date
BarOfDate(f, d) == CHOOSE k \in 1..Len(f) : f[k].date = d

\* the rows at 1-based indices a..b of a frame as prev_5_days entries
BarsAsPrev(f, a, b) ==
    [i \in 1..(b - a + 1) |->
       [date |-> f[a + i - 1].date, close |-> f[a + i - 1].close,
        EMA_short |-> f[a + i - 1].EMA_short, EMA_long |-> f[a + i - 1].EMA_long]]

\* C4: on a series with ascending unique dates, the event of the bar at
\* position p carries as prev_5_days exactly the bars at positions
\* max(0, p-5) .. p-1 in order: min(5, p) entries, never the bar itself.
C4_PrevFiveDays ==
    (pc = "detected" /\ DatesAscend(analyzer)) =>
        \A j \in 1..Len(crossovers) :
            LET k == BarOfDate(analyzer, crossovers[j].date)
                p == k - 1
            IN  /\ Len(crossovers[j].prev_5_days) = (IF p < 5 THEN p ELSE 5)
                /\ crossovers[j].prev_5_days
                     = BarsAsPrev(analyzer, (IF p < 5 THEN 0 ELSE p - 5) + 1, p)

\* an event with five earlier bars out of more than five, and one with fewer
C4_Witness ==
    /\ pc = "detected"
    /\ DatesAscend(analyzer)
    /\ \E j \in 1..Len(crossovers) :
          /\ BarOfDate(analyzer, crossovers[j].date) > 6
          /\ Len(crossovers[j].prev_5_days) = 5
          /\ crossovers[j].prev_5_days[5].date < crossovers[j].date

\* the level lists of the bars at 1-based indices a..b that count
SupportLists(f, a, b) ==
    SelectSeq([i \in 1..(b - a + 1) |-> f[a + i - 1].support_levels],
              LAMBDA v : Len(v) = 2)

ResistanceLists(f, a, b) ==
    SelectSeq([i \in 1..(b - a + 1) |-> f[a + i - 1].resistance_levels],
              LAMBDA v : Len(v) = 2)

\* [mean of the strong levels, mean of the weak levels], or empty
AveragedLevels(lists) ==
    IF lists = <<>> THEN <<>>
    ELSE <<Mean([i \in 1..Len(lists) |-> lists[i][1]]),
           Mean([i \in 1..Len(lists) |-> lists[i][2]])>>

\* C5: each averaged level list of an event is empty or [mean strong, mean
\* weak] over exactly the bars, among the crossover bar and its up to 4
\* immediate predecessors, that carry a 2-element level list.
C5_AveragedLevels ==
    pc = "detected" =>
        \A j \in 1..Len(crossovers) :
            LET k == BarOfDate(analyzer, crossovers[j].date)
                a == IF k > 4 THEN k - 4 ELSE 1
            IN  /\ crossovers[j].indicators.support_levels
                     = AveragedLevels(SupportLists(analyzer, a, k))
                /\ crossovers[j].indicators.resistance_levels
                     = AveragedLevels(ResistanceLists(analyzer, a, k))

\* C6: after calculate_all every bar at position < 34 has no levels and
\* every bar at position >= 34 has two-element lists.
C6_LevelThreshold ==
    pc = "calculated" =>
        \A k \in 1..Len(df) :
            IF k - 1 < 34
            THEN df[k].support_levels = <<>> /\ df[k].resistance_levels = <<>>
            ELSE Len(df[k].support_levels) = 2 /\ Len(df[k].resistance_levels) = 2

\* C7: calculate_all returns as many rows as it was given, in the same
\* order; no step adds, drops or reorders a row.
C7_RowsKept ==
    [][(pc = "fetched" /\ pc' = "calculated") =>
          /\ Len(df') = Len(df)
          /\ \A k \in 1..Len(df) :
                /\ df'[k].label = df[k].label
                /\ df'[k].date = df[k].date
                /\ df'[k].close = df[k].close
                /\ df'[k].high = df[k].high
                /\ df'[k].low = df[k].low]_vars

\* a calculated series on which the level loop wrote levels
C7_Witness ==
    /\ pc = "calculated"
    /\ Len(df) = market.n
    /\ \E k \in 1..Len(df) : Len(df[k].support_levels) = 2
    /\ \E k \in 1..Len(df) : Len(df[k].support_levels) = 0

\* C8: a request the collaborator fails (exception or malformed response)
\* returns the fallback text without raising; a request that succeeds
\* returns the generated text unchanged.
C8_FallbackOnFailure ==
    /\ Len(results) = Len(calls)
    /\ \A i \in 1..Len(calls) :
          results[i].decision
            = (IF calls[i].kind = "ok" THEN calls[i].content ELSE Fallback)

\* one request answered by a malformed response or an exception and one
\* answered with text, in one run
C8_Witness ==
    /\ \E i \in 1..Len(calls) :
          calls[i].kind # "ok" /\ results[i].decision = Fallback
    /\ \E i \in 1..Len(calls) :
          calls[i].kind = "ok" /\ results[i].decision = calls[i].content

\* C9: get_trading_suggestion never raises for any event; a failure while
\* building the prompt ends in the fallback text as well.
C9_NeverRaises ==
    /\ pc # "crashed"
    /\ pc = "done" => Len(results) = Len(crossovers)

\* C10: the events are sent one at a time in ascending-date order, every
\* detected event gets exactly one result row, and a failed call leaves the
\* fallback text in its row and does not stop the later events.
C10_SequentialRows ==
    /\ pc # "crashed"
    /\ pc \in {"detected", "done"} =>
          /\ Len(results) <= Len(crossovers)
          /\ Len(calls) = Len(results)
          /\ \A i \in 1..Len(results) :
                /\ results[i].date = crossovers[i].date
                /\ calls[i].date = crossovers[i].date
                /\ calls[i].kind # "ok" => results[i].decision = Fallback
          /\ \A i \in 1..(Len(crossovers) - 1) :
                crossovers[i].date < crossovers[i + 1].date
          /\ pc = "done" => Len(results) = Len(crossovers)
    /\ (pc = "detected" /\ Len(results) < Len(crossovers)) => ENABLED Suggest

\* a finished run whose first call failed and whose second event got its row
C10_Witness ==
    /\ pc = "done"
    /\ Len(results) >= 2
    /\ calls[1].kind # "ok"
    /\ results[1].decision = Fallback
    /\ results[2].date = crossovers[2].date
    /\ results[2].decision # Fallback

\* the last get_minute_data call had nothing to return: the type is not
\* supported, or the provider raised, returned nothing or an empty series
NoData ==
    \/ assetType \notin AssetTypes
    \/ provider \in {"none", "empty", "raise"}
    \/ provider = "frame" /\ market.n = 0

\* no indicator was computed, nothing was detected, nothing was requested
NothingAnalysed ==
    /\ df = <<>>
    /\ analyzer = <<>>
    /\ crossovers = <<>>
    /\ results = <<>>
    /\ calls = <<>>

\* C11: when the provider raises, returns nothing or an empty series, or the
\* asset type is unsupported, get_minute_data returns None (the run stands
\* at "failed"), and the run then computes no indicator, detects nothing and
\* requests no recommendation: from "failed" it can only be started again.
C11_NoDataNoAnalysis ==
    [][/\ (pc = "start" /\ NoData') => (pc' = "failed" /\ NothingAnalysed')
       /\ pc = "failed" => (pc' = "start" /\ NothingAnalysed /\ NothingAnalysed')
       /\ pc' = "failed" => NoData']_vars

\* a run that failed because the provider raised on an existing series, and
\* nothing was analysed
C11_Witness ==
    /\ pc = "failed"
    /\ provider = "raise"
    /\ market.n > 0
    /\ NothingAnalysed

\* C12: constructing TechnicalIndicators / EMAAnalyzer and calling
\* calculate_all or detect_crossovers leave the series object the caller
\* passed in as it was; detect_crossovers leaves the analyzer's stored series
\* as it was too, so calling it again returns the identical event list.
C12_CallerSeriesUntouched ==
    [][/\ (pc = "fetched" /\ pc' = "calculated") => passed'.rows = df
       /\ (pc = "filtered" /\ pc' = "analyzer") =>
             (passed'.rows = df /\ df' = df /\ analyzer' = df)
       /\ (pc = "analyzer" /\ pc' = "detected") =>
             /\ passed'.rows = passed.rows
             /\ df' = df
             /\ analyzer' = analyzer
             /\ detect_crossovers(analyzer') = crossovers']_vars

\* a detection that reported an event and left the passed series, which
\* calculate_all had given its indicator columns, as it was
C12_Witness ==
    /\ pc = "detected"
    /\ Len(crossovers) > 0
    /\ passed.rows = df
    /\ analyzer = df
    /\ Len(df) > 1

\* C13: on a rising series close[t] = 100 + t of 40 bars with periods 8 and
\* 21 (and on the other rising series of the model), calculate_all followed
\* by detect_crossovers reports a golden_cross on one of the first 21 bars
\* and no death_cross; no crossover is left undecided by the enclosures.
C13_RisingSeries ==
    pc = "trend_detected" =>
        /\ \E j \in 1..Len(crossovers) :
              crossovers[j].type = "golden_cross" /\ crossovers[j].date <= 21
        /\ \A j \in 1..Len(crossovers) : crossovers[j].type = "golden_cross"

\* the scenario itself: 40 bars from 100 in steps of 1, periods 8 and 21
C13_Witness ==
    /\ pc = "trend_detected"
    /\ market = [n |-> 40, first |-> 100, step |-> 1]
    /\ periods = <<8, 21>>
    /\ Len(df) = 40
    /\ Len(crossovers) = 1
    /\ crossovers[1].type = "golden_cross"

\* the bars of the trailing 14-bar window of row k that closed lower / higher
\* than the bar before them
LosingBars(f, k) == {j \in (k - 13)..k : j > 1 /\ f[j].close < f[j - 1].close}

GainingBars(f, k) == {j \in (k - 13)..k : j > 1 /\ f[j].close > f[j - 1].close}

\* C14 as stated: whenever the average loss over the trailing 14-bar window
\* is zero, calculate_rsi yields not-a-number, not 100.
C14_ZeroLossIsNan ==
    pc = "rsi_calculated" =>
        \A k \in 14..Len(df) : LosingBars(df, k) = {} => df[k].RSI = Nan

\* C14 amended: with a zero average loss over the trailing 14-bar window
\* calculate_rsi yields 100 when the window has a gain and not-a-number only
\* when it has neither gain nor loss; a row without a full window is
\* not-a-number.
C14_ZeroLossIsHundred ==
    pc = "rsi_calculated" =>
        /\ \A k \in 14..Len(df) :
              LosingBars(df, k) = {} =>
                  df[k].RSI = (IF GainingBars(df, k) = {} THEN Nan ELSE RInt(100))
        /\ \A k \in 1..Len(df) : k < 14 => df[k].RSI = Nan

\* a strictly rising 20-bar series: every row with a full window has RSI 100
C14_Witness ==
    /\ pc = "rsi_calculated"
    /\ Len(df) = 20
    /\ \A k \in 2..20 : df[k].close > df[k - 1].close
    /\ \A k \in 14..20 : df[k].RSI = RInt(100)

\* the 35 bars at positions i-34 .. i of a frame
WindowAt(f, i) == SubSeq(f, i - 33, i + 1)

\* max of the window's highs and min of its lows, by one pass each
WindowMaxHigh(w) == CHOOSE h \in {w[j].high : j \in 1..35} : \A j \in 1..35 : w[j].high <= h

WindowMinLow(w) == CHOOSE l \in {w[j].low : j \in 1..35} : \A j \in 1..35 : l <= w[j].low

\* PP = (max high + min low + last close) / 3
PivotPoint(w) == Rat(WindowMaxHigh(w) + WindowMinLow(w) + w[35].close, 3)

\* <<support, resistance>> of a window as the claim states them:
\* [S1 - 0.5 * ATR, PP - ATR] with S1 = 2 * PP - max high and
\* [R1 + 0.5 * ATR, PP + ATR] with R1 = 2 * PP - min low
ExpectedLevels(w) ==
    LET pp  == PivotPoint(w)
        s1  == RSub(RAdd(pp, pp), RInt(WindowMaxHigh(w)))
        r1  == RSub(RAdd(pp, pp), RInt(WindowMinLow(w)))
        atr == AtrLast(w)
    IN  << <<RSub(s1, RScale(atr, 1, 2)), RSub(pp, atr)>>,
           <<RAdd(r1, RScale(atr, 1, 2)), RAdd(pp, atr)>> >>

ExpectedSupport(w) == ExpectedLevels(w)[1]

ExpectedResistance(w) == ExpectedLevels(w)[2]

\* C15: for every 35-bar window find_key_levels returns
\* support = [S1 - 0.5*ATR, PP - ATR] and resistance = [R1 + 0.5*ATR, PP + ATR]
\* with PP = (max high + min low + last close) / 3, R1 = 2*PP - min low,
\* S1 = 2*PP - max high and ATR the window's last 14-period ATR; the strong
\* level first.  Checked on the levels calculate_all writes for the window
\* of positions i-34 .. i (they go to the row labelled i).
C15_KeyLevelFormula ==
    pc = "calculated" =>
        \A i \in 34..(Len(df) - 1) :
            LET expected == ExpectedLevels(WindowAt(df, i))
                row      == Loc(df, i)
            IN  /\ row.support_levels = expected[1]
                /\ row.resistance_levels = expected[2]

\* a calculated series whose last window moved in its final bars, so that
\* max high, min low and last close are three different bars' values
C15_Witness ==
    /\ pc = "calculated"
    /\ Len(df) > 35
    /\ df[Len(df)].close # df[Len(df) - 1].close
    /\ df[Len(df) - 1].close # df[1].close
    /\ Loc(df, Len(df) - 1).support_levels = ExpectedSupport(WindowAt(df, Len(df) - 1))
    /\ Len(Loc(df, Len(df) - 1).resistance_levels) = 2

\* C16: for every bar at position i >= 34 the levels computed from the
\* window of positions i-34 .. i are attached to the bar at position i
\* itself, whatever the row labels are, and no other bar gets levels.
C16_LevelsOnOwnBar ==
    pc = "calculated" =>
        \A k \in 1..Len(df) :
            IF k - 1 >= 34
            THEN /\ df[k].support_levels = ExpectedSupport(WindowAt(df, k - 1))
                 /\ df[k].resistance_levels = ExpectedResistance(WindowAt(df, k - 1))
            ELSE /\ df[k].support_levels = NoLevels
                 /\ df[k].resistance_levels = NoLevels

\* C17: for every series given to EMAAnalyzer, a date-filtered slice whose
\* labels do not start at 0 included, the bar find_support_resistance looks
\* up for an event is the bar detect_crossovers is reporting.
C17_LookupOwnBar ==
    pc = "detected" =>
        \A j \in 1..Len(CrossoverIndex(analyzer)) :
            LET idx == CrossoverIndex(analyzer)[j]
            IN  /\ idx < Len(analyzer)
                /\ ILoc(analyzer, idx).date = Loc(analyzer, idx).date

\* C18: on a series in which two bars share a date, detect_crossovers
\* completes and the event of the crossover bar at position p still carries
\* the bars at positions max(0, p-5) .. p-1 as prev_5_days and averages the
\* levels over positions max(0, p-4) .. p, whichever of the equal-dated bars
\* p is.
C18_DuplicateDates ==
    pc = "detected" =>
        /\ Len(crossovers) = Cardinality(CrossBars(analyzer))
        /\ \A j \in 1..Len(crossovers) :
              LET k == KthCrossBar(analyzer, j)
                  p == k - 1
                  a == IF k > 4 THEN k - 4 ELSE 1
              IN  /\ crossovers[j].prev_5_days
                       = BarsAsPrev(analyzer, (IF p < 5 THEN 0 ELSE p - 5) + 1, p)
                  /\ crossovers[j].indicators.support_levels
                       = AveragedLevels(SupportLists(analyzer, a, k))
                  /\ crossovers[j].indicators.resistance_levels
                       = AveragedLevels(ResistanceLists(analyzer, a, k))

\* C19: two consecutive events have the same type only if diff is exactly 0
\* on the bar immediately before the later event; when diff is never exactly
\* 0 between them, consecutive events alternate between golden_cross and
\* death_cross.
C19_SameTypeNeedsZero ==
    pc = "detected" =>
        \A j \in 1..(Len(crossovers) - 1) :
            LET k1 == BarOfDate(analyzer, crossovers[j].date)
                k2 == BarOfDate(analyzer, crossovers[j + 1].date)
            IN  /\ k1 < k2
                /\ crossovers[j].type = crossovers[j + 1].type
                      => DiffSign(analyzer, k2 - 1) = 0
                /\ (\A k \in k1..(k2 - 1) : DiffSign(analyzer, k) # 0)
                      => crossovers[j].type # crossovers[j + 1].type

\* two golden crosses in a row, the later one right behind a bar with diff 0
C19_Witness ==
    /\ pc = "detected"
    /\ Len(crossovers) = 2
    /\ crossovers[1].type = "golden_cross"
    /\ crossovers[2].type = "golden_cross"
    /\ DiffSign(analyzer, BarOfDate(analyzer, crossovers[2].date) - 1) = 0

\* the 1-based indices of the bars whose close differs from the first close
MovedBars(f) == {k \in 1..Len(f) : f[k].close # f[1].close}

\* C20: when calculate_all (short < long) and detect_crossovers run on the
\* same unfiltered series, both EMAs equal the first close on bar 0, diff
\* is 0 on every bar before the first bar whose close differs from bar 0's
\* close, and that bar is reported: golden_cross if its close is higher,
\* death_cross if lower; a series with constant close yields no event.
C20_FirstMoveIsReported ==
    (pc = "detected" /\ Len(analyzer) = market.n /\ market.n > 0) =>
        /\ analyzer[1].EMA_short = RInt(analyzer[1].close)
        /\ analyzer[1].EMA_long = RInt(analyzer[1].close)
        /\ MovedBars(analyzer) = {} => crossovers = <<>>
        /\ MovedBars(analyzer) # {} =>
              LET m == CHOOSE k \in MovedBars(analyzer) :
                           \A j \in MovedBars(analyzer) : k <= j
              IN  /\ \A k \in 1..(m - 1) : DiffSign(analyzer, k) = 0
                  /\ crossovers # <<>>
                  /\ crossovers[1].date = analyzer[m].date
                  /\ crossovers[1].type
                        = (IF analyzer[m].close > analyzer[1].close
                           THEN "golden_cross" ELSE "death_cross")

\* an unfiltered series that stays at its first close for more than 30 bars
\* and then falls: the bar of the fall is the first event, a death cross
C20_Witness ==
    /\ pc = "detected"
    /\ Len(analyzer) = market.n
    /\ \E m \in 30..Len(analyzer) :
          /\ \A k \in 1..(m - 1) : analyzer[k].close = analyzer[1].close
          /\ analyzer[m].close < analyzer[1].close
          /\ crossovers # <<>>
          /\ crossovers[1].date = analyzer[m].date
          /\ crossovers[1].type = "death_cross"

\* the 1-based position in the frame of the bar with the index value t
BarOfTime(t) == CHOOSE k \in 1..Len(df) : df[k].label = t

\* the run_strategy call under way, or just returned, is the first one made
\* on the instance
FreshRun == pc \in {"first_run", "first_returned"}

\* the entry bars on record: those of the trades and of the open position
EntryBars ==
    {BarOfTime(trades[t].entry_time) : t \in 1..Len(trades)}
      \cup (IF strategy.position # 0 THEN {BarOfTime(strategy.entry_time)} ELSE {})

\* the bars on which a trade was closed
ExitBars == {BarOfTime(trades[t].exit_time) : t \in 1..Len(trades)}

\* the instance held no position when bar e came to its entry test: nothing
\* was carried over from the bar before, or it was closed on bar e itself
FlatAtEntry(e) == e = 1 \/ positions[e - 1] = 0 \/ e \in ExitBars

\* C21: in run_strategy on a fresh instance the position is always one of
\* -1, 0, 1; a position is opened only when flat; every recorded trade exits
\* on a bar strictly after its entry bar, and the next trade's entry bar is
\* at or after the previous trade's exit bar.
C21_TradesNeverOverlap ==
    FreshRun =>
        /\ strategy.position \in {-1, 0, 1}
        /\ \A k \in 1..Len(positions) : positions[k] \in {-1, 0, 1}
        /\ \A e \in EntryBars : FlatAtEntry(e)
        /\ \A k \in 2..Len(positions) :
             (positions[k - 1] # 0 /\ positions[k] # positions[k - 1]) => k \in ExitBars
        /\ \A t \in 1..Len(trades) :
             BarOfTime(trades[t].exit_time) > BarOfTime(trades[t].entry_time)
        /\ \A t \in 1..(Len(trades) - 1) :
             BarOfTime(trades[t + 1].entry_time) >= BarOfTime(trades[t].exit_time)

\* a first run that returned two trades, a long one and then a short one
\* entered on the very bar that closed the long one
C21_Witness ==
    /\ pc = "first_returned"
    /\ Len(trades) = 2
    /\ trades[1].type = "LONG"
    /\ trades[2].type = "SHORT"
    /\ trades[2].entry_time = trades[1].exit_time
    /\ df[Len(df)].position = 0

\* the cache file of a key
FileOf(key) == files[Filepath(key)]

\* the rows a csv file holds, as a frame returns them: under labels 0..n-1
SavedSeries(file) == read_csv(file)

\* the last call contacted the provider and got a non-empty series
FetchedSeries == provider = "frame" /\ market.n > 0

====
